---- MODULE Spec2Model ----
(***************************************************************************)
(* State-machine model of tux-validation: the I2C discovery and validation *)
(* engine (src/src/i2c.rs) and the os-release reader                       *)
(* (src/src/os_release.rs).                                                *)
(***************************************************************************)
EXTENDS Integers, Sequences, FiniteSets, TLC

VARIABLES
    pc,               \* "idle" | "scanning" | "auditing" | "parsing" | "done"
    op,               \* the library operation in progress / last completed
    enable_hw_probe,  \* the caller's flag (FALSE when the operation has none)
    expected,         \* validate_bus: expected_addresses
    scanned,          \* validate_bus: the lists obtained from the scanner
    outcome,          \* per-address outcome of the latest LinuxI2cScanner hardware scan
    ioLog,            \* I/O issued so far, in order: <<"open", bus_id, addr>> for each
                      \* LinuxI2CDevice::new, <<"sysfs", bus_id>> for each scan_sysfs
    result,           \* what the operation returned
    dev,              \* entry names of /dev
    busses,           \* full_system_scan / audit_all_i2c_buses: buses still to visit
    reports,          \* full_system_scan / audit_all_i2c_buses: reports pushed so far
    text,             \* os-release: input text not yet consumed by reader.lines()
    consumed,         \* os-release: the lines already handed to the loop body
    map               \* os-release: the HashMap under construction

vars == <<pc, op, enable_hw_probe, expected, scanned, outcome, ioLog,
          result, dev, busses, reports, text, consumed, map>>

-----------------------------------------------------------------------------
(* Bounds and input pools *)

MaxExpected == 3      \* longest expected-address sequence
MaxList == 2          \* longest list an arbitrary I2cScanner returns
MaxDevEntries == 2    \* most entries of /dev
MaxTextLen == 5       \* longest os-release text, in characters

AddrLo == 8           \* 0x08
AddrHi == 119         \* 0x77

\* The addresses at which the modelled hardware may answer; every other
\* address of the range NACKs the quick-write and has no sysfs entry.
Slots == {8, 119}
\* Addresses a caller may put in the expected list: the slots and the two
\* values just outside 0x08..=0x77.
ExpectedPool == Slots \cup {7, 120}
\* Bus ids handed to validate_bus.
BusIds == {3}
\* The addresses at which a hardware scan called on its own may see any outcome.
ProbeSlots == {8, 9, 64, 119}

-----------------------------------------------------------------------------
(* Generic helpers *)

SeqsUpTo(S, n) == UNION {[1..k -> S] : k \in 0..n}
Contains(s, x) == \E i \in DOMAIN s : s[i] = x
ToSet(s) == {s[i] : i \in DOMAIN s}
Last(s) == s[Len(s)]
\* The element of a one-element set; used to evaluate an intermediate value once.
Only(S) == CHOOSE x \in S : TRUE

Ok(v) == [kind |-> "Ok", val |-> v]
Err(e) == [kind |-> "Err", err |-> e]
Panic(m) == [kind |-> "Panic", err |-> m]
None == [kind |-> "None"]

-----------------------------------------------------------------------------
(* LinuxI2cScanner *)

\* What LinuxI2CDevice::new followed by smbus_write_quick can do at one address.
Outcomes == {"ack", "nack", "EBUSY", "errno_other",
             "io_NotFound", "io_PermissionDenied", "io_other"}
NoOutcome == [a \in {} |-> "nack"]
OutcomeAt(out, addr) == IF addr \in DOMAIN out THEN out[addr] ELSE "nack"

\* One iteration of the probe loop; acc carries unbound, bound and the opens issued.
ProbeAddressNoBail(bus_id, addr, o, acc) ==
    LET a2 == [acc EXCEPT !.log = Append(@, <<"open", bus_id, addr>>)] IN
    CASE o = "ack" -> [a2 EXCEPT !.unbound = Append(@, addr)]
      [] o = "EBUSY" -> [a2 EXCEPT !.bound = Append(@, addr)]
      [] OTHER -> a2

ProbeAddressBailOnErrno(bus_id, addr, o, acc) ==
    LET a2 == [acc EXCEPT !.log = Append(@, <<"open", bus_id, addr>>)] IN
    CASE o = "ack" -> [a2 EXCEPT !.unbound = Append(@, addr)]
      [] o = "nack" -> a2
      [] o = "EBUSY" -> [a2 EXCEPT !.bound = Append(@, addr)]
      [] o = "errno_other" -> [a2 EXCEPT !.kind = "Err", !.err = "Errno"]
      [] o = "io_NotFound" -> [a2 EXCEPT !.kind = "Err", !.err = "BusNotFound"]
      [] o = "io_PermissionDenied" -> [a2 EXCEPT !.kind = "Err", !.err = "PermissionDenied"]
      [] o = "io_other" -> a2

ProbeAddress(bus_id, addr, o, acc) ==
    LET a2 == [acc EXCEPT !.log = Append(@, <<"open", bus_id, addr>>)] IN
    CASE o = "ack" -> [a2 EXCEPT !.unbound = Append(@, addr)]
      [] o = "nack" -> a2
      [] o = "EBUSY" -> [a2 EXCEPT !.bound = Append(@, addr)]
      [] o = "errno_other" -> a2
      [] o = "io_NotFound" -> [a2 EXCEPT !.kind = "Err", !.err = "BusNotFound"]
      [] o = "io_PermissionDenied" -> [a2 EXCEPT !.kind = "Err", !.err = "PermissionDenied"]
      [] o = "io_other" -> a2

\* `for addr in lo..=hi`, in ascending order, stopping at the first bail!.
\* The range is split in halves only to keep the evaluation shallow: the left
\* half is always visited before the right half, with the accumulator threaded.
RECURSIVE ProbeRange(_, _, _, _, _)
ProbeRange(bus_id, lo, hi, out, acc) ==
    IF lo > hi \/ acc.kind = "Err" THEN acc
    ELSE IF lo = hi THEN ProbeAddress(bus_id, lo, OutcomeAt(out, lo), acc)
    ELSE LET mid == (lo + hi) \div 2
         IN Only({ProbeRange(bus_id, mid + 1, hi, out, left) :
                     left \in {ProbeRange(bus_id, lo, mid, out, acc)}})

\* Result<(Vec<u16>, Vec<u16>)> together with the opens it issued.
scan_hw_probe(bus_id, out) ==
    LET acc == ProbeRange(bus_id, AddrLo, AddrHi, out,
                   [kind |-> "Ok", err |-> "", unbound |-> <<>>, bound |-> <<>>, log |-> <<>>])
    IN IF acc.kind = "Err"
       THEN [kind |-> "Err", err |-> acc.err, log |-> acc.log]
       ELSE [kind |-> "Ok", unbound |-> acc.unbound, bound |-> acc.bound, log |-> acc.log]

\* Body of `for addr in 0x08..=0x77` of scan_sysfs.
SysfsAddress(addr, exists, detected) ==
    IF addr \in exists THEN Append(detected, addr) ELSE detected

RECURSIVE SysfsRange(_, _, _, _)
SysfsRange(lo, hi, exists, detected) ==
    IF lo > hi THEN detected
    ELSE IF lo = hi THEN SysfsAddress(lo, exists, detected)
    ELSE LET mid == (lo + hi) \div 2
         IN Only({SysfsRange(mid + 1, hi, exists, left) :
                     left \in {SysfsRange(lo, mid, exists, detected)}})

\* exists: the addresses a with /sys/bus/i2c/devices/<bus_id>-<a> present.
scan_sysfs(exists) == [kind |-> "Ok", detected |-> SysfsRange(AddrLo, AddrHi, exists, <<>>)]

\* The bus ids the model scans: those handed to validate_bus, those of the
\* /dev entries and those of the udev map.
ScannedBusIds == {0, 1, 3, 9, 10}

\* scan_hw_probe and scan_sysfs tabulated over the modelled inputs, so that each
\* scan is evaluated once (@@ makes the table an explicit function).
HwProbeResults ==
    [bus_id \in ScannedBusIds, out \in [Slots -> Outcomes] |-> scan_hw_probe(bus_id, out)]
        @@ <<>>
SysfsResults == [exists \in SUBSET Slots |-> scan_sysfs(exists)] @@ <<>>

-----------------------------------------------------------------------------
(* validate_bus *)

EmptyResult == [missing |-> <<>>, unexpected |-> <<>>, present |-> <<>>, probed |-> <<>>]

ExpectedStepNoElse(addr, hw_unbound, hw_bound, detected_sysfs, r) ==
    LET r1 == IF Contains(hw_unbound, addr) \/ Contains(hw_bound, addr)
              THEN [r EXCEPT !.present = Append(@, addr), !.probed = Append(@, addr)]
              ELSE r
    IN IF Contains(detected_sysfs, addr)
       THEN [r1 EXCEPT !.present = Append(@, addr)]
       ELSE [r1 EXCEPT !.missing = Append(@, addr)]

ExpectedStepIgnoreBound(addr, hw_unbound, hw_bound, detected_sysfs, r) ==
    IF Contains(hw_unbound, addr)
    THEN [r EXCEPT !.present = Append(@, addr), !.probed = Append(@, addr)]
    ELSE IF Contains(detected_sysfs, addr)
    THEN [r EXCEPT !.present = Append(@, addr)]
    ELSE [r EXCEPT !.missing = Append(@, addr)]

\* Body of `for &addr in expected_addresses`.
ExpectedStep(addr, hw_unbound, hw_bound, detected_sysfs, r) ==
    IF Contains(hw_unbound, addr) \/ Contains(hw_bound, addr)
    THEN [r EXCEPT !.present = Append(@, addr), !.probed = Append(@, addr)]
    ELSE IF Contains(detected_sysfs, addr)
    THEN [r EXCEPT !.present = Append(@, addr)]
    ELSE [r EXCEPT !.missing = Append(@, addr)]

RECURSIVE ExpectedLoop(_, _, _, _, _, _)
ExpectedLoop(i, E, hw_unbound, hw_bound, detected_sysfs, r) ==
    IF i > Len(E) THEN r
    ELSE ExpectedLoop(i + 1, E, hw_unbound, hw_bound, detected_sysfs,
                      ExpectedStep(E[i], hw_unbound, hw_bound, detected_sysfs, r))

HwStepNoCheck(addr, E, r) ==
    [r EXCEPT !.unexpected = Append(@, addr), !.probed = Append(@, addr)]

\* Body of `for &addr in &hw_unbound` and of `for &addr in &hw_bound`.
HwStep(addr, E, r) ==
    IF ~Contains(E, addr)
    THEN [r EXCEPT !.unexpected = Append(@, addr), !.probed = Append(@, addr)]
    ELSE r

RECURSIVE HwLoop(_, _, _, _)
HwLoop(i, list, E, r) ==
    IF i > Len(list) THEN r
    ELSE HwLoop(i + 1, list, E, HwStep(list[i], E, r))

\* Body of `for &addr in &detected_sysfs`.
SysfsStep(addr, E, r) ==
    IF ~Contains(E, addr) /\ ~Contains(r.unexpected, addr)
    THEN [r EXCEPT !.unexpected = Append(@, addr)]
    ELSE r

RECURSIVE SysfsLoop(_, _, _, _)
SysfsLoop(i, list, E, r) ==
    IF i > Len(list) THEN r
    ELSE SysfsLoop(i + 1, list, E, SysfsStep(list[i], E, r))

Reconcile(E, hw_unbound, hw_bound, detected_sysfs) ==
    LET r1 == ExpectedLoop(1, E, hw_unbound, hw_bound, detected_sysfs, EmptyResult)
        r2 == HwLoop(1, hw_unbound, E, r1)
        r3 == HwLoop(1, hw_bound, E, r2)
    IN SysfsLoop(1, detected_sysfs, E, r3)

\* scanner.hw / scanner.sysfs: what the scanner's two methods return when called.
\* The value carries the Result and which scanner methods were invoked, in order.
validate_bus(scanner, expected_addresses, enable) ==
    LET hw == IF enable THEN scanner.hw
              ELSE [kind |-> "Ok", unbound |-> <<>>, bound |-> <<>>, log |-> <<>>]
        hwCall == IF enable THEN <<"scan_hw_probe">> ELSE <<>>
    IN IF hw.kind = "Err"
       THEN [res |-> Err(hw.err), calls |-> hwCall, log |-> hw.log,
             lists |-> [hardware_unbound |-> <<>>, hardware_bound |-> <<>>,
                        kernel_detected |-> <<>>]]
       ELSE IF scanner.sysfs.kind = "Err"
       THEN [res |-> Err(scanner.sysfs.err), calls |-> hwCall \o <<"scan_sysfs">>,
             log |-> hw.log,
             lists |-> [hardware_unbound |-> hw.unbound, hardware_bound |-> hw.bound,
                        kernel_detected |-> <<>>]]
       ELSE [res |-> Ok(Reconcile(expected_addresses, hw.unbound, hw.bound,
                                  scanner.sysfs.detected)),
             calls |-> hwCall \o <<"scan_sysfs">>, log |-> hw.log,
             lists |-> [hardware_unbound |-> hw.unbound, hardware_bound |-> hw.bound,
                        kernel_detected |-> scanner.sysfs.detected]]

NoLists == [hardware_unbound |-> <<>>, hardware_bound |-> <<>>, kernel_detected |-> <<>>]

-----------------------------------------------------------------------------
(* discover_buses: names and paths are sequences of characters *)

DevDir == <<"/", "d", "e", "v", "/">>
I2cPrefix == <<"i", "2", "c", "-">>
DevI2cPrefix == DevDir \o I2cPrefix
DigitChars == <<"0", "1", "2", "3", "4", "5", "6", "7", "8", "9">>
U8Max == 255

\* The entry names /dev may hold.
DevNamePool == { <<"t", "t", "y">>,
                 I2cPrefix \o <<"0">>, I2cPrefix \o <<"9">>, I2cPrefix \o <<"1", "0">>,
                 I2cPrefix \o <<"x">>, I2cPrefix \o <<"2", "5", "6">> }

Some(v) == [some |-> TRUE, val |-> v]
Nothing == [some |-> FALSE, val |-> 0]

\* str::starts_with / str::strip_prefix
StartsWith(str, prefix) ==
    Len(str) >= Len(prefix) /\ SubSeq(str, 1, Len(prefix)) = prefix
StripPrefix(str, prefix) ==
    IF StartsWith(str, prefix)
    THEN [some |-> TRUE, val |-> SubSeq(str, Len(prefix) + 1, Len(str))]
    ELSE [some |-> FALSE, val |-> <<>>]

\* Path::file_name: the component after the last '/'.
RECURSIVE FileName(_)
FileName(path) ==
    IF \E i \in DOMAIN path : path[i] = "/"
    THEN FileName(Tail(path))
    ELSE path

IsDigit(c) == \E d \in DOMAIN DigitChars : DigitChars[d] = c
DigitValue(c) == (CHOOSE d \in DOMAIN DigitChars : DigitChars[d] = c) - 1

\* Accumulates the digits of str[i..] onto acc; fails on a non-digit or above u8::MAX.
RECURSIVE ParseDigits(_, _, _)
ParseDigits(str, i, acc) ==
    IF i > Len(str) THEN Some(acc)
    ELSE IF ~IsDigit(str[i]) THEN Nothing
    ELSE LET n == acc * 10 + DigitValue(str[i])
         IN IF n > U8Max THEN Nothing ELSE ParseDigits(str, i + 1, n)

\* str::parse::<u8>: an optional '+', then at least one digit.
ParseU8(str) ==
    LET digits == IF str # <<>> /\ Head(str) = "+" THEN Tail(str) ELSE str
    IN IF digits = <<>> THEN Nothing ELSE ParseDigits(digits, 1, 0)

\* The closure given to sort_by_key.
SortKey(path) ==
    LET stripped == StripPrefix(FileName(path), I2cPrefix)
        parsed == IF stripped.some THEN ParseU8(stripped.val) ELSE Nothing
    IN IF parsed.some THEN parsed.val ELSE 0

\* Stable insertion of x into the key-sorted sequence s: after every element
\* whose key is not greater.
RECURSIVE InsertByKey(_, _)
InsertByKey(s, x) ==
    IF s = <<>> THEN <<x>>
    ELSE IF SortKey(Last(s)) <= SortKey(x) THEN Append(s, x)
    ELSE Append(InsertByKey(SubSeq(s, 1, Len(s) - 1), x), Last(s))

\* Vec::sort_by_key (a stable sort).
RECURSIVE SortByKey(_, _, _)
SortByKey(s, i, sorted) ==
    IF i > Len(s) THEN sorted
    ELSE SortByKey(s, i + 1, InsertByKey(sorted, s[i]))

\* The test of the loop over read_dir("/dev").
IsBusEntry(name) == StartsWith(name, I2cPrefix)

RECURSIVE CollectBuses(_, _, _)
CollectBuses(entries, i, buses) ==
    IF i > Len(entries) THEN buses
    ELSE CollectBuses(entries, i + 1,
             IF IsBusEntry(FileName(DevDir \o entries[i]))
             THEN Append(buses, DevDir \o entries[i]) ELSE buses)

\* entries: the names of /dev in the order read_dir yields them.
discover_buses(readable, entries) ==
    IF ~readable THEN Err("IoError")
    ELSE Ok(SortByKey(CollectBuses(entries, 1, <<>>), 1, <<>>))

\* All orders in which read_dir may yield the entries of a directory.
DirOrders(S) ==
    {o \in [1..Cardinality(S) -> S] : \A i, j \in DOMAIN o : i # j => o[i] # o[j]}
DevContents == {S \in SUBSET DevNamePool : Cardinality(S) <= MaxDevEntries}

\* The bus_id computation at the head of the full_system_scan loop.
BusIdOf(bus_str) ==
    LET stripped == StripPrefix(bus_str, DevI2cPrefix)
    IN IF stripped.some THEN ParseU8(stripped.val) ELSE Nothing

\* One iteration of the full_system_scan loop once bus_id is known; out and
\* exists are what the hardware and sysfs show for that bus.
ScanOneBus(bus_str, bus_id, enable, out, exists) ==
    LET hw == IF enable THEN HwProbeResults[bus_id, out]
              ELSE [kind |-> "Ok", unbound |-> <<>>, bound |-> <<>>, log |-> <<>>]
    IN IF hw.kind = "Err"
       THEN [kind |-> "Err", err |-> hw.err, log |-> hw.log]
       ELSE [kind |-> "Ok",
             report |-> [bus_path |-> bus_str,
                         kernel_detected |-> SysfsResults[exists].detected,
                         hardware_unbound |-> hw.unbound,
                         hardware_bound |-> hw.bound],
             log |-> hw.log \o <<<<"sysfs", bus_id>>>>]

-----------------------------------------------------------------------------
(* audit_all_i2c_buses *)

\* udev records of I2C clients, reduced to what the audit reads: whether
\* TuxDevice::from_udev can build the device, and its address.
UdevDevices == {[ok |-> TRUE, address |-> a] : a \in Slots} \cup {[ok |-> FALSE, address |-> 0]}
UdevBusIds == {0, 1}
\* What get_i2c_udev_map may return: bus ids with their device lists.
UdevMaps ==
    UNION {[B -> {d \in SeqsUpTo(UdevDevices, 1) : TRUE}] : B \in SUBSET UdevBusIds}

\* `for dev in devices`: from_udev(..).expect(..), then hw_responding.
RECURSIVE CrossReference(_, _, _, _)
CrossReference(devices, i, bound_hw, acc) ==
    IF i > Len(devices) THEN [kind |-> "Ok", devices |-> acc]
    ELSE IF ~devices[i].ok THEN [kind |-> "Panic", devices |-> acc]
    ELSE CrossReference(devices, i + 1, bound_hw,
             Append(acc, [address |-> devices[i].address, in_udev |-> TRUE,
                          hw_responding |-> Contains(bound_hw, devices[i].address)]))

\* `for addr in unbound_hw`: the devices in hardware but not in udev.
RECURSIVE Ghosts(_, _, _)
Ghosts(unbound_hw, i, acc) ==
    IF i > Len(unbound_hw) THEN acc
    ELSE Ghosts(unbound_hw, i + 1,
             IF ~\E k \in DOMAIN acc : acc[k].address = unbound_hw[i]
             THEN Append(acc, [address |-> unbound_hw[i], in_udev |-> FALSE,
                               hw_responding |-> TRUE])
             ELSE acc)

\* One iteration of the audit_all_i2c_buses loop.
AuditOneBus(bus_id, devices, out) ==
    LET hw == HwProbeResults[bus_id, out]
    IN IF hw.kind = "Err" THEN [kind |-> "Err", err |-> hw.err, log |-> hw.log]
       ELSE LET x == CrossReference(devices, 1, hw.bound, <<>>)
            IN IF x.kind = "Panic"
               THEN [kind |-> "Panic", err |-> "Factory from udev::Device failed!",
                     log |-> hw.log]
               ELSE [kind |-> "Ok", log |-> hw.log,
                     bus_node |-> [id |-> bus_id,
                                   devices |-> Ghosts(hw.unbound, 1, x.devices)]]

-----------------------------------------------------------------------------
(* os_release: text, lines, keys and values are sequences of characters *)

NL == "\n"
Whitespace == {" ", "\t", "\r", NL}
\* The characters the modelled os-release texts are made of.
TextChars == {" ", "#", "=", "\"", "'", "a", NL}
Texts == SeqsUpTo(TextChars, MaxTextLen)

\* str::trim_start_matches / str::trim_end_matches for a set of characters.
RECURSIVE TrimStartMatches(_, _)
TrimStartMatches(str, C) ==
    IF str # <<>> /\ Head(str) \in C THEN TrimStartMatches(Tail(str), C) ELSE str
RECURSIVE TrimEndMatches(_, _)
TrimEndMatches(str, C) ==
    IF str # <<>> /\ Last(str) \in C
    THEN TrimEndMatches(SubSeq(str, 1, Len(str) - 1), C) ELSE str

\* str::trim_matches(c)
TrimMatches(str, c) == TrimEndMatches(TrimStartMatches(str, {c}), {c})
\* str::trim
Trim(str) == TrimEndMatches(TrimStartMatches(str, Whitespace), Whitespace)

SplitOnceLast(str, c) ==
    IF \E i \in DOMAIN str : str[i] = c
    THEN LET p == CHOOSE i \in DOMAIN str : str[i] = c /\ \A j \in DOMAIN str : str[j] = c => j <= i
         IN [some |-> TRUE, k |-> SubSeq(str, 1, p - 1), v |-> SubSeq(str, p + 1, Len(str))]
    ELSE [some |-> FALSE, k |-> <<>>, v |-> <<>>]

\* Scans for the first occurrence of c from position i on.
RECURSIVE FindFrom(_, _, _)
FindFrom(str, c, i) ==
    IF i > Len(str) THEN 0
    ELSE IF str[i] = c THEN i
    ELSE FindFrom(str, c, i + 1)

\* str::split_once(c)
SplitOnce(str, c) ==
    LET p == FindFrom(str, c, 1)
    IN IF p = 0 THEN [some |-> FALSE, k |-> <<>>, v |-> <<>>]
       ELSE [some |-> TRUE, k |-> SubSeq(str, 1, p - 1), v |-> SubSeq(str, p + 1, Len(str))]

\* BufRead::lines, one item: the text up to the next newline, without the
\* newline and a carriage return before it, and what is left to read.
NextLine(input) ==
    LET p == FindFrom(input, NL, 1)
        raw == IF p = 0 THEN input ELSE SubSeq(input, 1, p - 1)
    IN [line |-> IF p # 0 /\ raw # <<>> /\ Last(raw) = "\r"
                 THEN SubSeq(raw, 1, Len(raw) - 1) ELSE raw,
        rest |-> IF p = 0 THEN <<>> ELSE SubSeq(input, p + 1, Len(input))]

\* HashMap::insert on a map held as a set of <<key, value>> pairs.
MapInsert(m, k, v) == {e \in m : e[1] # k} \cup {<<k, v>>}

\* Body of `for line_result in reader.lines()` once the line was read.
ParseLineBody(raw, m) ==
    LET line == Trim(raw)
    IN IF line = <<>> \/ Head(line) = "#" THEN m
       ELSE LET kv == SplitOnce(line, "=")
            IN IF kv.some
               THEN MapInsert(m, Trim(kv.k), TrimMatches(TrimMatches(Trim(kv.v), "\""), "'"))
               ELSE m

\* The text of tests/system_health.rs, read_os_id_and_codename.
SampleLines ==
    << <<>>,
       <<"I", "D", "=", "d", "e", "b", "i", "a", "n">>,
       <<"V", "E", "R", "S", "I", "O", "N", "_", "C", "O", "D", "E", "N", "A", "M", "E",
         "=", "\"", "f", "o", "r", "k", "y", "\"">>,
       <<"#", " ", "T", "h", "i", "s", " ", "i", "s", " ", "a", " ",
         "c", "o", "m", "m", "e", "n", "t">>,
       <<" ", " ", " ", " ", " ", " ", " ", " ",
         "E", "X", "T", "R", "A", "_", "V", "A", "R", "=", "v", "a", "l", "u", "e">>,
       <<" ", " ", " ", " ">> >>
RECURSIVE JoinLines(_)
JoinLines(lines) ==
    IF lines = <<>> THEN <<>>
    ELSE IF Len(lines) = 1 THEN lines[1]
    ELSE lines[1] \o <<NL>> \o JoinLines(Tail(lines))
SampleText == JoinLines(SampleLines)

-----------------------------------------------------------------------------
Init ==
    /\ pc = "idle"
    /\ op = "none"
    /\ enable_hw_probe = FALSE
    /\ expected = <<>>
    /\ scanned = NoLists
    /\ outcome = NoOutcome
    /\ ioLog = <<>>
    /\ result = None
    /\ dev = {}
    /\ busses = <<>>
    /\ reports = <<>>
    /\ text = <<>>
    /\ consumed = <<>>
    /\ map = {}

\* validate_bus(&LinuxI2cScanner { bus_id }, E, enable)
ValidateBusLinux ==
    /\ pc = "idle"
    /\ \E bus_id \in BusIds, enable \in BOOLEAN, exists \in SUBSET Slots :
       \* the hardware shows an outcome only when it is probed
       \E out \in IF enable THEN [Slots -> Outcomes] ELSE {[a \in Slots |-> "nack"]} :
       \E scanner \in {[hw |-> HwProbeResults[bus_id, out], sysfs |-> SysfsResults[exists]]} :
       \E E \in SeqsUpTo(ExpectedPool, MaxExpected) :
          \E v \in {validate_bus(scanner, E, enable)} :
             /\ op' = "validate_bus"
             /\ enable_hw_probe' = enable
             /\ expected' = E
             /\ scanned' = v.lists
             /\ outcome' = IF enable THEN out ELSE NoOutcome
             /\ ioLog' = v.log \o (IF Contains(v.calls, "scan_sysfs")
                                   THEN <<<<"sysfs", bus_id>>>> ELSE <<>>)
             /\ result' = v.res
    /\ pc' = "done"
    /\ UNCHANGED <<dev, busses, reports, text, consumed, map>>

\* validate_bus(&scanner, E, enable) for any other implementation of I2cScanner:
\* the trait fixes only the types of what the two methods return.
ValidateBusOther ==
    /\ pc = "idle"
    /\ \E E \in SeqsUpTo(ExpectedPool, MaxExpected), enable \in BOOLEAN,
          sysfs \in {[kind |-> "Ok", detected |-> d] : d \in SeqsUpTo(Slots, MaxList)}
                    \cup {[kind |-> "Err", err |-> "ScannerError"]} :
       \* scan_hw_probe returns something only when it is called
       \E hw \in IF enable
                 THEN {[kind |-> "Ok", unbound |-> u, bound |-> b, log |-> <<>>] :
                          u \in SeqsUpTo(Slots, MaxList), b \in SeqsUpTo(Slots, MaxList)}
                      \cup {[kind |-> "Err", err |-> "ScannerError", log |-> <<>>]}
                 ELSE {[kind |-> "Err", err |-> "NotCalled", log |-> <<>>]} :
          \E v \in {validate_bus([hw |-> hw, sysfs |-> sysfs], E, enable)} :
             /\ op' = "validate_bus_other"
             /\ enable_hw_probe' = enable
             /\ expected' = E
             /\ scanned' = v.lists
             /\ result' = v.res
    /\ pc' = "done"
    /\ UNCHANGED <<outcome, ioLog, dev, busses, reports, text, consumed, map>>

\* LinuxI2cScanner { bus_id }.scan_hw_probe(), called on its own.
ScanHwProbe ==
    /\ pc = "idle"
    /\ \E bus_id \in BusIds, out \in [ProbeSlots -> Outcomes] :
       \E r \in {scan_hw_probe(bus_id, out)} :
          /\ outcome' = out
          /\ ioLog' = r.log
          /\ result' = IF r.kind = "Err" THEN Err(r.err)
                       ELSE Ok([hardware_unbound |-> r.unbound, hardware_bound |-> r.bound])
    /\ op' = "scan_hw_probe"
    /\ pc' = "done"
    /\ UNCHANGED <<enable_hw_probe, expected, scanned, dev, busses, reports,
                   text, consumed, map>>

\* discover_buses()
DiscoverBuses ==
    /\ pc = "idle"
    /\ \E contents \in DevContents, readable \in BOOLEAN :
       \E entries \in DirOrders(contents) :
          /\ dev' = contents
          /\ result' = discover_buses(readable, entries)
    /\ op' = "discover_buses"
    /\ pc' = "done"
    /\ UNCHANGED <<enable_hw_probe, expected, scanned, outcome, ioLog, busses, reports,
                   text, consumed, map>>

\* full_system_scan(enable): `let busses = discover_buses()?`
FullScanStart ==
    /\ pc = "idle"
    /\ op' = "full_system_scan"
    /\ \E enable \in BOOLEAN, contents \in DevContents, readable \in BOOLEAN :
       \E entries \in DirOrders(contents) :
       \E d \in {discover_buses(readable, entries)} :
          /\ enable_hw_probe' = enable
          /\ dev' = contents
          /\ IF d.kind = "Err"
             THEN pc' = "done" /\ result' = d /\ busses' = <<>>
             ELSE pc' = "scanning" /\ result' = None /\ busses' = d.val
    /\ UNCHANGED <<expected, scanned, outcome, ioLog, reports, text, consumed, map>>

\* full_system_scan: one iteration of `for path in busses`
FullScanBus ==
    /\ pc = "scanning" /\ op = "full_system_scan" /\ busses # <<>>
    /\ \E id \in {BusIdOf(Head(busses))} :
          IF ~id.some
          THEN /\ pc' = "done"
               /\ result' = Panic("invalid bus string")
               /\ busses' = <<>> /\ reports' = <<>>
               /\ UNCHANGED <<outcome, ioLog>>
          ELSE \E out \in [Slots -> Outcomes], exists \in SUBSET Slots :
               \E r \in {ScanOneBus(Head(busses), id.val, enable_hw_probe, out, exists)} :
                  /\ outcome' = IF enable_hw_probe THEN out ELSE NoOutcome
                  /\ ioLog' = ioLog \o r.log
                  /\ IF r.kind = "Err"
                     THEN /\ pc' = "done"
                          /\ result' = Err(r.err)
                          /\ busses' = <<>> /\ reports' = <<>>
                     ELSE /\ pc' = "scanning"
                          /\ result' = None
                          /\ busses' = Tail(busses)
                          /\ reports' = Append(reports, r.report)
    /\ UNCHANGED <<op, enable_hw_probe, expected, scanned, dev, text, consumed, map>>

\* full_system_scan: `Ok(reports)`
FullScanReturn ==
    /\ pc = "scanning" /\ op = "full_system_scan" /\ busses = <<>>
    /\ pc' = "done"
    /\ result' = Ok(reports)
    /\ reports' = <<>>
    /\ UNCHANGED <<op, enable_hw_probe, expected, scanned, outcome, ioLog, dev, busses,
                   text, consumed, map>>

\* audit_all_i2c_buses(): `let udev_map = get_i2c_udev_map()?`; the loop then
\* visits the HashMap in an order of its own.
AuditStart ==
    /\ pc = "idle"
    /\ op' = "audit_all_i2c_buses"
    /\ \E ok \in BOOLEAN, udev_map \in UdevMaps :
       \E order \in DirOrders(DOMAIN udev_map) :
          IF ~ok
          THEN pc' = "done" /\ result' = Err("UdevError") /\ busses' = <<>>
          ELSE /\ pc' = "auditing" /\ result' = None
               /\ busses' = [i \in DOMAIN order |->
                                [bus_id |-> order[i], devices |-> udev_map[order[i]]]]
    /\ UNCHANGED <<enable_hw_probe, expected, scanned, outcome, ioLog, dev, reports,
                   text, consumed, map>>

\* audit_all_i2c_buses: one iteration of `for (bus_id, devices) in udev_map`
AuditBus ==
    /\ pc = "auditing" /\ op = "audit_all_i2c_buses" /\ busses # <<>>
    /\ \E out \in [Slots -> Outcomes] :
       \E r \in {AuditOneBus(Head(busses).bus_id, Head(busses).devices, out)} :
          /\ outcome' = out
          /\ ioLog' = ioLog \o r.log
          /\ IF r.kind = "Ok"
             THEN /\ pc' = "auditing" /\ result' = None
                  /\ busses' = Tail(busses)
                  /\ reports' = Append(reports, r.bus_node)
             ELSE /\ pc' = "done"
                  /\ result' = [kind |-> r.kind, err |-> r.err]
                  /\ busses' = <<>> /\ reports' = <<>>
    /\ UNCHANGED <<op, enable_hw_probe, expected, scanned, dev, text, consumed, map>>

\* audit_all_i2c_buses: `Ok(board_report)`
AuditReturn ==
    /\ pc = "auditing" /\ op = "audit_all_i2c_buses" /\ busses = <<>>
    /\ pc' = "done"
    /\ result' = Ok(reports)
    /\ reports' = <<>>
    /\ UNCHANGED <<op, enable_hw_probe, expected, scanned, outcome, ioLog, dev, busses,
                   text, consumed, map>>

\* parse_os_release_from_reader(reader): the reader is positioned at the
\* start of its text.
ParseStart ==
    /\ pc = "idle"
    /\ op' = "parse_os_release_from_reader"
    /\ pc' = "parsing"
    /\ \E t \in Texts \cup {SampleText} : text' = t
    /\ consumed' = <<>>
    /\ map' = {}
    /\ UNCHANGED <<enable_hw_probe, expected, scanned, outcome, ioLog, result, dev,
                   busses, reports>>

\* One iteration of `for line_result in reader.lines()`; `line_result?`
\* returns the reader's error if the read failed.
ParseLine ==
    /\ pc = "parsing" /\ op = "parse_os_release_from_reader" /\ text # <<>>
    /\ \E readOk \in BOOLEAN :
          IF readOk
          THEN \E n \in {NextLine(text)} :
                  /\ text' = n.rest
                  /\ consumed' = Append(consumed, n.line)
                  /\ map' = ParseLineBody(n.line, map)
                  /\ UNCHANGED <<pc, result>>
          ELSE /\ pc' = "done"
               /\ result' = Err("IoError")
               /\ text' = <<>> /\ map' = {}
               /\ UNCHANGED consumed
    /\ UNCHANGED <<op, enable_hw_probe, expected, scanned, outcome, ioLog, dev,
                   busses, reports>>

\* `Ok(map)`
ParseReturn ==
    /\ pc = "parsing" /\ op = "parse_os_release_from_reader" /\ text = <<>>
    /\ pc' = "done"
    /\ result' = Ok(map)
    /\ map' = {}
    /\ UNCHANGED <<op, enable_hw_probe, expected, scanned, outcome, ioLog, dev,
                   busses, reports, text, consumed>>

\* The caller drops the returned value; the next call starts afresh.
Return ==
    /\ pc = "done"
    /\ pc' = "idle"
    /\ op' = "none"
    /\ enable_hw_probe' = FALSE
    /\ expected' = <<>>
    /\ scanned' = NoLists
    /\ outcome' = NoOutcome
    /\ ioLog' = <<>>
    /\ result' = None
    /\ dev' = {}
    /\ busses' = <<>>
    /\ reports' = <<>>
    /\ text' = <<>>
    /\ consumed' = <<>>
    /\ map' = {}

Next ==
    \/ ValidateBusLinux \/ ValidateBusOther
    \/ ScanHwProbe
    \/ DiscoverBuses
    \/ FullScanStart \/ FullScanBus \/ FullScanReturn
    \/ AuditStart \/ AuditBus \/ AuditReturn
    \/ ParseStart \/ ParseLine \/ ParseReturn
    \/ Return

Spec == Init /\ [][Next]_vars

\* The I2C operations over the Linux scanner.
NextI2c ==
    \/ ValidateBusLinux
    \/ DiscoverBuses
    \/ FullScanStart \/ FullScanBus \/ FullScanReturn
    \/ AuditStart \/ AuditBus \/ AuditReturn
    \/ Return
SpecI2c == Init /\ [][NextI2c]_vars

\* validate_bus alone, over the Linux scanner and over arbitrary scanners.
NextValidate == ValidateBusLinux \/ ValidateBusOther \/ Return
SpecValidate == Init /\ [][NextValidate]_vars

\* The hardware scan alone.
NextProbe == ScanHwProbe \/ Return
SpecProbe == Init /\ [][NextProbe]_vars

\* The os-release reader alone.
NextOsRelease == ParseStart \/ ParseLine \/ ParseReturn \/ Return
SpecOsRelease == Init /\ [][NextOsRelease]_vars

-----------------------------------------------------------------------------
(* Claims about validate_bus *)

InRange(a) == AddrLo <= a /\ a <= AddrHi
Occurrences(s, x) == Cardinality({i \in DOMAIN s : s[i] = x})
ValidateOk == pc = "done" /\ op \in {"validate_bus", "validate_bus_other"}
              /\ result.kind = "Ok"
Observed == ToSet(scanned.kernel_detected) \cup ToSet(scanned.hardware_unbound)
            \cup ToSet(scanned.hardware_bound)
HwObserved == ToSet(scanned.hardware_unbound) \cup ToSet(scanned.hardware_bound)

\* C1: after a successful validate_bus no address is in both present and
\* missing, and the addresses of present together with those of missing are
\* exactly the de-duplicated expected addresses.
C1_PresentMissingPartition ==
    ValidateOk =>
        /\ ToSet(result.val.present) \cap ToSet(result.val.missing) = {}
        /\ ToSet(result.val.present) \cup ToSet(result.val.missing) = ToSet(expected)

C1_Witness ==
    /\ ValidateOk
    /\ Len(expected) = 3 /\ Cardinality(ToSet(expected)) = 2
    /\ result.val.present # <<>> /\ result.val.missing # <<>>
    /\ \A i \in DOMAIN expected : InRange(expected[i])
    /\ enable_hw_probe /\ HwObserved # {} /\ scanned.kernel_detected # <<>>

\* C2: a successful validate_bus classifies by set membership: present is
\* expected-and-observed, missing is expected-and-not-observed, unexpected is
\* observed-and-not-expected, probed is the hardware-observed addresses; with
\* hardware probing disabled the hardware lists count as empty.
C2_ClassifiesBySetMembership ==
    ValidateOk =>
        /\ (~enable_hw_probe => HwObserved = {})
        /\ ToSet(result.val.present) = ToSet(expected) \cap Observed
        /\ ToSet(result.val.missing) = ToSet(expected) \ Observed
        /\ ToSet(result.val.unexpected) = Observed \ ToSet(expected)
        /\ ToSet(result.val.probed) = HwObserved
        /\ (ToSet(expected) = Observed =>
                result.val.missing = <<>> /\ result.val.unexpected = <<>>)
        /\ (expected = <<>> =>
                /\ result.val.present = <<>> /\ result.val.missing = <<>>
                /\ ToSet(result.val.unexpected) = Observed)

C2_Witness ==
    /\ ValidateOk /\ op = "validate_bus" /\ enable_hw_probe
    /\ scanned.hardware_bound # <<>>
    /\ ~(ToSet(scanned.hardware_bound) \subseteq ToSet(scanned.kernel_detected))
    /\ ToSet(scanned.hardware_bound) \subseteq ToSet(result.val.present)
    /\ result.val.missing # <<>>
    /\ \A i \in DOMAIN expected : InRange(expected[i])

\* C3: after a successful validate_bus, for whatever lists the scanner
\* returned, no address occurs more than once in unexpected, and an address
\* that is hardware-responding and kernel-registered but not expected occurs
\* in unexpected once and is in probed.
C3_UnexpectedHasNoDuplicates ==
    ValidateOk =>
        /\ \A a \in ToSet(result.val.unexpected) : Occurrences(result.val.unexpected, a) = 1
        /\ \A a \in (HwObserved \cap ToSet(scanned.kernel_detected)) \ ToSet(expected) :
              /\ Occurrences(result.val.unexpected, a) = 1
              /\ Contains(result.val.probed, a)

\* C4: after a successful validate_bus every address in probed is in exactly
\* one of present and unexpected, and is not in missing.
C4_ProbedInExactlyOne ==
    ValidateOk =>
        \A a \in ToSet(result.val.probed) :
            /\ Contains(result.val.present, a) # Contains(result.val.unexpected, a)
            /\ ~Contains(result.val.missing, a)

C4_Witness ==
    /\ ValidateOk
    /\ \E a, b \in ToSet(result.val.probed) :
          Contains(result.val.present, a) /\ Contains(result.val.unexpected, b)
    /\ result.val.missing # <<>>

\* C5: validate_bus called with an expected address outside 0x08..=0x77
\* fails with AddressOutOfRange and returns no ValidationResult.
C5_OutOfRangeRejected ==
    (pc = "done" /\ op \in {"validate_bus", "validate_bus_other"}
        /\ \E i \in DOMAIN expected : ~InRange(expected[i]))
    => (result.kind = "Err" /\ result.err = "AddressOutOfRange")

-----------------------------------------------------------------------------
(* Claims about hardware probing, enumeration and full_system_scan *)

IsOpen(e) == e[1] = "open"
Opens == {i \in DOMAIN ioLog : IsOpen(ioLog[i])}

\* C6: in every run of validate_bus, full_system_scan and audit_all_i2c_buses a
\* device open is issued only if the caller enabled hardware probing; with
\* probing disabled the hardware lists and probed are empty.
C6_ProbeOnlyWhenEnabled ==
    /\ (Opens # {} => enable_hw_probe)
    /\ (ValidateOk /\ ~enable_hw_probe =>
            /\ scanned.hardware_unbound = <<>> /\ scanned.hardware_bound = <<>>
            /\ result.val.probed = <<>>)

FatalOutcomes == {"io_NotFound", "io_PermissionDenied"}
FatalAddrs == {a \in DOMAIN outcome : outcome[a] \in FatalOutcomes}
FirstFatal == CHOOSE a \in FatalAddrs : \A b \in FatalAddrs : a <= b
FatalError(o) == IF o = "io_NotFound" THEN "BusNotFound" ELSE "PermissionDenied"

\* C7: when the open fails with not-found or permission-denied at some
\* address of a hardware scan run by validate_bus or full_system_scan, that
\* open is the last I/O of the operation (no later address is probed and no
\* sysfs scan follows), and the operation has returned that error and nothing
\* else: no ValidationResult and none of the reports gathered before.
C7_FatalOpenAborts ==
    (op \in {"validate_bus", "full_system_scan"} /\ FatalAddrs # {}) =>
        /\ pc = "done"
        /\ result = Err(FatalError(outcome[FirstFatal]))
        /\ ioLog # <<>>
        /\ IsOpen(Last(ioLog)) /\ Last(ioLog)[3] = FirstFatal
        /\ \A i \in Opens : ioLog[i][2] = Last(ioLog)[2] => ioLog[i][3] <= FirstFatal
        /\ reports = <<>>

C7_Witness ==
    /\ op = "full_system_scan" /\ pc = "done" /\ result.kind = "Err"
    /\ FatalAddrs # {} /\ FirstFatal > AddrLo
    /\ outcome[AddrLo] = "ack"
    /\ \E i \in DOMAIN ioLog : ~IsOpen(ioLog[i])

IsNumeric(str) == str # <<>> /\ \A i \in DOMAIN str : IsDigit(str[i])
\* The number a string of digits denotes.
RECURSIVE Numeral(_)
Numeral(str) ==
    IF str = <<>> THEN 0
    ELSE 10 * Numeral(SubSeq(str, 1, Len(str) - 1)) + DigitValue(Last(str))
IsI2cBusName(name) ==
    StartsWith(name, I2cPrefix) /\ IsNumeric(SubSeq(name, Len(I2cPrefix) + 1, Len(name)))
BusNumber(path) == Numeral(SubSeq(path, Len(DevI2cPrefix) + 1, Len(path)))
I2cBusPaths == {DevDir \o name : name \in {n \in dev : IsI2cBusName(n)}}
AscendingBusPaths(paths) ==
    /\ ToSet(paths) = I2cBusPaths
    /\ \A i, j \in DOMAIN paths : i < j => BusNumber(paths[i]) < BusNumber(paths[j])

\* C8: discover_buses returns exactly the /dev entries named i2c-<N> with <N>
\* an unsigned integer, strictly ascending by <N>.
C8_DiscoverNumericAscending ==
    (pc = "done" /\ op = "discover_buses" /\ result.kind = "Ok") =>
        AscendingBusPaths(result.val)

\* C9: unless a bus path fails fatally (or /dev cannot be read),
\* full_system_scan returns normally with exactly one report per I2C bus, in
\* ascending numeric bus order, each carrying that bus's path.
C9_FullScanOneReportPerBus ==
    (pc = "done" /\ op = "full_system_scan" /\ result.kind # "Err") =>
        /\ result.kind = "Ok"
        /\ AscendingBusPaths([i \in DOMAIN result.val |-> result.val[i].bus_path])

-----------------------------------------------------------------------------
(* Claims about parse_os_release_from_reader *)

\* s without the characters of C at its two ends, stated by positions.
Inner(str, C) ==
    LET keep == {i \in DOMAIN str : str[i] \notin C}
    IN IF keep = {} THEN <<>>
       ELSE SubSeq(str, CHOOSE i \in keep : \A j \in keep : i <= j,
                        CHOOSE i \in keep : \A j \in keep : j <= i)
HasChar(str, c) == \E i \in DOMAIN str : str[i] = c
FirstIndex(str, c) == CHOOSE i \in DOMAIN str : str[i] = c /\ \A j \in 1..(i - 1) : str[j] # c
\* The lines that define a key: non-empty after trimming, not a comment, with '='.
Defines(raw) ==
    LET t == Inner(raw, Whitespace)
    IN t # <<>> /\ t[1] # "#" /\ HasChar(t, "=")
KeyText(raw) ==
    LET t == Inner(raw, Whitespace)
    IN Inner(SubSeq(t, 1, FirstIndex(t, "=") - 1), Whitespace)
ValueText(raw) ==
    LET t == Inner(raw, Whitespace)
    IN Inner(Inner(Inner(SubSeq(t, FirstIndex(t, "=") + 1, Len(t)), Whitespace), {"\""}), {"'"})
DefiningLines == {i \in DOMAIN consumed : Defines(consumed[i])}
SampleMap ==
    { << <<"I", "D">>, <<"d", "e", "b", "i", "a", "n">> >>,
      << <<"V", "E", "R", "S", "I", "O", "N", "_", "C", "O", "D", "E", "N", "A", "M", "E">>,
         <<"f", "o", "r", "k", "y">> >>,
      << <<"E", "X", "T", "R", "A", "_", "V", "A", "R">>, <<"v", "a", "l", "u", "e">> >> }

\* C10: the map parse_os_release_from_reader returns has exactly one entry per
\* distinct key of the lines that, trimmed, are non-empty, are not comments and
\* contain '='; the key is the trimmed text before the first '=', the value
\* the trimmed text after it without its surrounding double or single quotes
\* (of the last line giving that key); the sample text of the test yields
\* exactly ID, VERSION_CODENAME and EXTRA_VAR.
C10_OsReleaseMap ==
    (pc = "done" /\ op = "parse_os_release_from_reader" /\ result.kind = "Ok") =>
        /\ {e[1] : e \in result.val} = {KeyText(consumed[i]) : i \in DefiningLines}
        /\ \A e, f \in result.val : e[1] = f[1] => e = f
        /\ \A e \in result.val :
              \E i \in DefiningLines :
                 /\ KeyText(consumed[i]) = e[1] /\ ValueText(consumed[i]) = e[2]
                 /\ \A j \in DefiningLines : KeyText(consumed[j]) = e[1] => j <= i
        /\ (consumed = SampleLines => result.val = SampleMap)

C10_Witness ==
    /\ pc = "done" /\ op = "parse_os_release_from_reader" /\ result.kind = "Ok"
    /\ consumed = SampleLines
    /\ Cardinality(result.val) = 3

-----------------------------------------------------------------------------
(* Claims about scan_hw_probe *)

AddrRange == AddrLo..AddrHi
StrictlyAscending(s) == \A i, j \in DOMAIN s : i < j => s[i] < s[j]
AddrsWith(o) == {a \in AddrRange : OutcomeAt(outcome, a) = o}
ProbeDoneNoFatal == pc = "done" /\ op = "scan_hw_probe" /\ FatalAddrs = {}

\* C11: when no address fails with a fatal bus-path error, scan_hw_probe opens
\* each address of 0x08..=0x77 exactly once, in ascending order, and returns
\* as hardware_unbound exactly the addresses that opened and acknowledged the
\* quick-write, as hardware_bound exactly those whose open failed with EBUSY;
\* both lists are strictly ascending and they are disjoint.
C11_ProbeVisitsEveryAddress ==
    ProbeDoneNoFatal =>
        /\ result.kind = "Ok"
        /\ Len(ioLog) = AddrHi - AddrLo + 1
        /\ \A i \in DOMAIN ioLog :
              /\ IsOpen(ioLog[i])
              /\ ioLog[i][2] = ioLog[1][2]
              /\ ioLog[i][3] = AddrLo + i - 1
        /\ ToSet(result.val.hardware_unbound) = AddrsWith("ack")
        /\ ToSet(result.val.hardware_bound) = AddrsWith("EBUSY")
        /\ StrictlyAscending(result.val.hardware_unbound)
        /\ StrictlyAscending(result.val.hardware_bound)
        /\ ToSet(result.val.hardware_unbound) \cap ToSet(result.val.hardware_bound) = {}

C11_Witness ==
    /\ ProbeDoneNoFatal /\ result.kind = "Ok"
    /\ Len(result.val.hardware_unbound) = 2
    /\ result.val.hardware_bound # <<>>
    /\ \E a \in DOMAIN outcome :
          /\ outcome[a] \in {"errno_other", "io_other"}
          /\ \E b \in ToSet(result.val.hardware_unbound) : a < b
          /\ \E b \in ToSet(result.val.hardware_bound) : a < b

====
